---------------------------- MODULE Spec2Model ----------------------------
(***************************************************************************)
(* A model of the NFC Tag Manager console tool (multitool.py, read.py).    *)
(*                                                                         *)
(* Representation.                                                         *)
(*   - A Python str typed by the user is a sequence of one-character       *)
(*     strings, so len(), strip(), lower() and int(s, 16) are computed     *)
(*     character by character.                                             *)
(*   - Captured command output is a sequence of chunks of text; a marker   *)
(*     such as "MIFARE Classic" is a sequence of chunks and Python's `in`  *)
(*     is a search for a contiguous run of chunks.                         *)
(*   - True, False and None are the strings "True", "False", "None".       *)
(*   - One action per function of the program, plus one per input()        *)
(*     prompt of main(); pc names the program point.                       *)
(***************************************************************************)
EXTENDS Integers, Sequences, FiniteSets, TLC

VARIABLES
    pc,        \* program point of main(): the function or prompt that runs next
    choice,    \* main: choice, the stripped menu input of this iteration
    card_type, \* main: card_type (line 358), "" while unassigned or dead
    serial,    \* main: serial (lines 361, 404), <<>> while unassigned or dead
    file,      \* whether /tmp/nfc_test.mfd exists
    log,       \* what this iteration did so far: spawns, confirmations, rejections
    last,      \* the last function that returned: its name, command outcome, value
    returned,  \* what the operation called by main returned in this iteration
    ndef_written \* whether this iteration assigned the tag's NDEF message

vars == <<pc, choice, card_type, serial, file, log, last, returned, ndef_written>>

-----------------------------------------------------------------------------
(* Bounds of the model *)

\* most chunks of text on a command's stdout
MaxOut == 2
\* most chunks of text on a command's stderr
MaxErr == 1
\* most characters of the sample UID that a typed serial replaces
MaxEdits == 1

-----------------------------------------------------------------------------
(* Text *)

RECURSIVE SeqsUpTo(_, _)
\* all sequences over S of length at most n
SeqsUpTo(S, n) ==
    IF n = 0 THEN {<<>>}
    ELSE LET shorter == SeqsUpTo(S, n - 1)
         IN  shorter \cup {Append(t, c) : t \in {u \in shorter : Len(u) = n - 1}, c \in S}

\* Python: marker in text
Contains(text, marker) ==
    \E i \in 0..(Len(text) - Len(marker)) :
        SubSeq(text, i + 1, i + Len(marker)) = marker

RECURSIVE LStrip(_)
LStrip(s) == IF s # <<>> /\ Head(s) = " " THEN LStrip(Tail(s)) ELSE s

RECURSIVE RStrip(_)
RStrip(s) ==
    IF s # <<>> /\ s[Len(s)] = " " THEN RStrip(SubSeq(s, 1, Len(s) - 1)) ELSE s

\* Python: s.strip(), for the blanks the model types
Strip(s) == RStrip(LStrip(s))

LowerChar(c) ==
    CASE c = "Y" -> "y"
      [] c = "N" -> "n"
      [] OTHER   -> c

\* Python: s.lower(), for the letters the model types
Lower(s) == [i \in 1..Len(s) |-> LowerChar(s[i])]

HexDigits ==
    {"0", "1", "2", "3", "4", "5", "6", "7", "8", "9",
     "a", "b", "c", "d", "e", "f", "A", "B", "C", "D", "E", "F"}

RECURSIVE DigitRun(_)
\* digits of int(): one digit, then digits each optionally preceded by one "_"
DigitRun(s) ==
    /\ s # <<>>
    /\ Head(s) \in HexDigits
    /\ \/ Len(s) = 1
       \/ DigitRun(Tail(s))
       \/ Len(s) >= 3 /\ s[2] = "_" /\ DigitRun(SubSeq(s, 3, Len(s)))

\* Python: int(s, 16) returns (does not raise ValueError), s already stripped:
\* an optional sign, an optional 0x or 0X with an optional "_" after it, digits
IntBase16Parses(s) ==
    LET unsigned == IF s # <<>> /\ Head(s) \in {"+", "-"} THEN Tail(s) ELSE s
        prefixed == Len(unsigned) >= 2 /\ unsigned[1] = "0" /\ unsigned[2] \in {"x", "X"}
        rest     == SubSeq(unsigned, 3, Len(unsigned))
        digits   == IF rest # <<>> /\ Head(rest) = "_" THEN Tail(rest) ELSE rest
    IN  IF prefixed THEN DigitRun(digits) ELSE DigitRun(unsigned)

-----------------------------------------------------------------------------
(* Markers searched for in command output *)

MIFARE_CLASSIC    == <<"MIFARE", "Classic">>
MIFARE_ULTRALIGHT == <<"Mifare Ultralight">>
NTAG              == <<"NTAG">>
ISO14443A         == <<"ISO/IEC 14443A">>

PERMISSION_DENIED     == <<"Permission denied">>
ACCESS_VIOLATION      == <<"Access violation">>
AUTHENTICATION_FAILED == <<"Authentication failed">>

NO_SUITABLE_CARD == <<"No suitable card found">>
SETTING_UID      == <<"Setting UID">>
SUCCESSFULLY     == <<"Successfully">>

\* chunks of text nfc-poll may print
PollChunks == {"MIFARE", "Classic", "Mifare Ultralight", "NTAG", "ISO/IEC 14443A"}
\* chunks of text nfc-mfclassic may print
DumpChunks == {"Permission denied", "Access violation", "Authentication failed", "Usage"}
\* chunks of text nfc-mfsetuid may print
SetUidChunks == {"No suitable card found", "Setting UID", "Successfully", "error"}


-----------------------------------------------------------------------------
(* subprocess.run: what a command invocation can come to *)

\* exit codes a command may end with
ExitCodes == {0, 1}

\* exceptions subprocess.run(..., text=True, timeout=...) raises:
\*   FileNotFoundError   the program is not installed
\*   PermissionError     the program may not be executed
\*   TimeoutExpired      the child ran and was killed at the timeout
\*   UnicodeDecodeError  the child ran and its output is not text
ToolFaults == {"FileNotFoundError", "PermissionError", "TimeoutExpired", "UnicodeDecodeError"}

\* the faults after which the child has run
RanFaults == {"TimeoutExpired", "UnicodeDecodeError"}

Completed(r, out, err) == [kind |-> "ok", rc |-> r, stdout |-> out, stderr |-> err]

Fault(k) == [kind |-> k, rc |-> -1, stdout |-> <<>>, stderr |-> <<>>]

\* every outcome of a command that prints chunks of `chunks`
Outcomes(chunks) ==
    {Completed(r, out, err) :
        r \in ExitCodes, out \in SeqsUpTo(chunks, MaxOut), err \in SeqsUpTo(chunks, MaxErr)}
    \cup {Fault(k) : k \in ToolFaults}

\* Python: isinstance(exc, cls) for the classes the program names
IsInstance(exc, cls) ==
    \/ cls = exc
    \/ cls = "Exception"
    \/ cls = "OSError" /\ exc \in {"FileNotFoundError", "PermissionError"}

\* the first except clause of `handlers` that catches exc, 0 when none does
Caught(handlers, exc) ==
    LET hits == {i \in 1..Len(handlers) : IsInstance(exc, handlers[i])}
    IN  IF hits = {} THEN 0 ELSE CHOOSE i \in hits : \A j \in hits : i <= j

\* the value of a call whose exception no except clause caught
Raised == "raised"

\* value of the try statement on exception exc: the matching clause's return
Except(handlers, values, exc) ==
    LET h == Caught(handlers, exc)
    IN  IF h = 0 THEN Raised ELSE values[h]

-----------------------------------------------------------------------------
(* The operations: the value each returns for an outcome of its command *)

ReadHandlers == <<"FileNotFoundError", "TimeoutExpired", "Exception">>

\* read_nfc_tag
ReadNfcTag(o) ==
    IF o.kind = "ok"
    THEN IF Contains(o.stdout, ISO14443A) THEN "True" ELSE "False"
    ELSE Except(ReadHandlers, <<"False", "False", "False">>, o.kind)

\* the if/elif chain with the generic ISO/IEC 14443A test moved to the front
ClassifyGenericFirst(output) ==
    IF Contains(output, ISO14443A) THEN "iso14443a"
    ELSE IF Contains(output, MIFARE_CLASSIC) THEN "mifare_classic"
    ELSE IF Contains(output, MIFARE_ULTRALIGHT) THEN "mifare_ultralight"
    ELSE IF Contains(output, NTAG) THEN "ntag"
    ELSE "unknown"

\* the if/elif chain of identify_card_type over output
Classify(output) ==
    IF Contains(output, MIFARE_CLASSIC) THEN "mifare_classic"
    ELSE IF Contains(output, MIFARE_ULTRALIGHT) THEN "mifare_ultralight"
    ELSE IF Contains(output, NTAG) THEN "ntag"
    ELSE IF Contains(output, ISO14443A) THEN "iso14443a"
    ELSE "unknown"

IdentifyHandlers == <<"FileNotFoundError", "TimeoutExpired", "Exception">>

\* identify_card_type
IdentifyCardType(o) ==
    IF o.kind = "ok"
    THEN Classify(o.stdout \o o.stderr)
    ELSE Except(IdentifyHandlers, <<"None", "None", "None">>, o.kind)

\* diagnose_card, line 115-116: the temp file after the dump came to o, where
\* `created` says the dump tool wrote the file before it stopped
TempFileAfter(o, before, created) ==
    IF o.kind = "ok" THEN FALSE ELSE before \/ created

DiagnoseHandlers == <<"FileNotFoundError", "TimeoutExpired", "Exception">>

\* diagnose_card's except clauses
DiagnoseExcept(exc) == Except(DiagnoseHandlers, <<"None", "False", "None">>, exc)

\* diagnose_card testing the error markers before the exit code
DiagnoseDumpMarkersFirst(o) ==
    IF o.kind = "ok"
    THEN LET output == o.stdout \o o.stderr
         IN  IF \/ Contains(output, PERMISSION_DENIED)
                \/ Contains(output, ACCESS_VIOLATION)
                \/ Contains(output, AUTHENTICATION_FAILED)
             THEN "False"
             ELSE IF o.rc = 0 THEN "call" ELSE "None"
    ELSE DiagnoseExcept(o.kind)

\* diagnose_card up to its call of diagnose_write_capability: "call" when it
\* goes on to the write test, else the value it returns
DiagnoseDump(o) ==
    IF o.kind = "ok"
    THEN LET output == o.stdout \o o.stderr
         IN  IF o.rc = 0 THEN "call"
             ELSE IF \/ Contains(output, PERMISSION_DENIED)
                     \/ Contains(output, ACCESS_VIOLATION)
                     \/ Contains(output, AUTHENTICATION_FAILED)
                  THEN "False"
                  ELSE "None"
    ELSE DiagnoseExcept(o.kind)

ProbeHandlers == <<"TimeoutExpired", "Exception">>

\* diagnose_write_capability
DiagnoseWriteCapability(o) ==
    IF o.kind = "ok"
    THEN LET output == o.stdout \o o.stderr
         IN  IF Contains(output, NO_SUITABLE_CARD) THEN "False"
             ELSE IF Contains(output, SETTING_UID) \/ Contains(output, SUCCESSFULLY)
                  THEN "True"
                  ELSE "None"
    ELSE Except(ProbeHandlers, <<"False", "None">>, o.kind)

\* diagnose_card after its call of diagnose_write_capability returned inner:
\* the call is inside diagnose_card's try, its value is dropped
DiagnoseAfterProbe(inner, o) ==
    IF inner = Raised THEN DiagnoseExcept(o.kind) ELSE "True"

WriteUidHandlers == <<"FileNotFoundError", "TimeoutExpired", "Exception">>

\* write_nfc_tag judging by the exit code alone
WriteNfcTagExitCodeOnly(o) ==
    IF o.kind = "ok"
    THEN IF o.rc = 0 THEN "True" ELSE "False"
    ELSE Except(WriteUidHandlers, <<"False", "False", "False">>, o.kind)

\* write_nfc_tag
WriteNfcTag(o) ==
    IF o.kind = "ok"
    THEN IF o.rc = 0 \/ Contains(o.stdout, SETTING_UID) THEN "True" ELSE "False"
    ELSE Except(WriteUidHandlers, <<"False", "False", "False">>, o.kind)

\* what the embedded script of write_ndef_text finds when it runs: whether its
\* imports succeed, whether the reader opens, whether a target is sensed, and
\* whether the tag is an NDEF tag that can be written
ScriptEnvs == [imports : BOOLEAN, clf : BOOLEAN, target : BOOLEAN, writable : BOOLEAN]

\* line 270, nfc.tag.activate(clf, target): the script's imports bind the names
\* ContactlessFrontend, RemoteTarget, TextRecord and Message and never the name
\* nfc, so evaluating it raises NameError
NfcNameBound == FALSE

\* whether the embedded script assigns tag.ndef.message (line 273)
NdefWritten(e) == e.imports /\ e.clf /\ e.target /\ NfcNameBound /\ e.writable

\* the embedded script, lines 253-281: its exit code and what it prints; only
\* a failed import ends it with sys.exit(1), every other path runs to its end
NdefScript(e) ==
    IF ~e.imports THEN Completed(1, <<"Required package missing">>, <<>>)
    ELSE IF ~e.clf THEN Completed(0, <<"Error">>, <<>>)
    ELSE IF ~e.target THEN Completed(0, <<"No tag detected">>, <<>>)
    ELSE IF ~NfcNameBound THEN Completed(0, <<"Error: name 'nfc' is not defined">>, <<>>)
    ELSE IF e.writable THEN Completed(0, <<"Successfully wrote NDEF">>, <<>>)
    ELSE Completed(0, <<"Tag not writable or no NDEF support">>, <<>>)

\* WriteNdefHandlers catching the missing interpreter only
WriteNdefHandlersNarrow == <<"FileNotFoundError">>

WriteNdefHandlers == <<"Exception">>

\* write_ndef_text
WriteNdefText(o) ==
    IF o.kind = "ok"
    THEN IF o.rc = 0 THEN "True" ELSE "False"
    ELSE Except(WriteNdefHandlers, <<"False">>, o.kind)

ListHandlers == <<"FileNotFoundError", "Exception">>

\* list_devices
ListDevices(o) ==
    IF o.kind = "ok" THEN "None" ELSE Except(ListHandlers, <<"None", "None">>, o.kind)

-----------------------------------------------------------------------------
(* main: validation of what the user types *)

\* len(serial) the write-UID action asks for
UidLen == 8

\* lines 366-378: "" when serial passes, else the message printed
ValidateSerial(s) ==
    IF s = <<>> THEN "Serial number cannot be empty"
    ELSE IF Len(s) # UidLen THEN "Serial must be exactly 8 hex characters"
    ELSE IF ~IntBase16Parses(s) THEN "Invalid hex format"
    ELSE ""

\* lines 408-410: "" when the text passes, else the message printed
ValidateText(s) == IF s = <<>> THEN "Text cannot be empty" ELSE ""

\* AfterValidation without the `continue` of lines 368, 372, 378, 410
AfterValidationNoContinue(msg, next) == next

\* a passing input goes on to the prompt `next`; lines 368, 372, 378,
\* 410: a refused one takes `continue`, back to the top of the loop
AfterValidation(msg, next) == IF msg = "" THEN next ELSE "menu"

\* lines 380-387, 412-419: confirm == 'y'
Confirms(raw) == Lower(Strip(raw)) = <<"y">>

\* the branch of main's if/elif chain over choice: the program point it leads to
Dispatch(c) ==
    CASE c = <<"1">> -> "read_nfc_tag"
      [] c = <<"2">> -> "identify_card_type"
      [] c = <<"3">> -> "diagnose_card"
      [] c = <<"4">> -> "identify_card_type"
      [] c = <<"5">> -> "enter_text"
      [] c = <<"6">> -> "exited"
      [] OTHER       -> "menu"

\* lines 360-401: the program point the write-UID action goes to for a card type
DispatchCardType(t) ==
    IF t \in {"mifare_classic", "iso14443a"} THEN "enter_serial" ELSE "menu"

-----------------------------------------------------------------------------
(* What the user types *)

\* the UID of the prompt's example
SampleUid == <<"1", "B", "2", "A", "0", "A", "3", "1">>

\* characters typed in place of the sample's
TypedChars == {"G", "0", "x", "_", "+", "-", " "}

RECURSIVE Edits(_, _)
\* s with at most k of its characters replaced
Edits(s, k) ==
    IF k = 0 THEN {s}
    ELSE LET fewer == Edits(s, k - 1)
         IN  fewer \cup {[t EXCEPT ![i] = c] : t \in fewer, i \in 1..Len(s), c \in TypedChars}

SerialInputs ==
    Edits(SampleUid, MaxEdits)
    \cup {SubSeq(SampleUid, 1, n) : n \in 0..(UidLen - 1)}
    \cup {Append(SampleUid, c) : c \in TypedChars}

TextInputs == {<<>>, <<" ">>, <<"h", "i">>, <<" ", "h", "i">>, SampleUid}

AnswerInputs == {<<"y">>, <<"Y">>, <<" ", "y", " ">>, <<"n">>, <<"N">>, <<>>, <<"y", "e", "s">>}

ChoiceInputs ==
    {<<"1">>, <<"2">>, <<"3">>, <<"4">>, <<"5">>, <<"6">>,
     <<"7">>, <<>>, <<" ", "3">>, <<"4", "2">>}

-----------------------------------------------------------------------------
(* Observations *)

NoOutcome == Fault("")

NoCall == [fn |-> "", o |-> NoOutcome, ret |-> ""]

NoReturn == [fn |-> "", val |-> ""]

\* a command spawned by function `by`, and how it ended
Spawn(prog, arg, by, o) ==
    [ev |-> "spawn", prog |-> prog, arg |-> arg, by |-> by, end |-> o.kind, rc |-> o.rc]

\* an answer to a y/n prompt: "y" when it confirms
Answer(raw) ==
    [ev |-> "confirm", prog |-> "", arg |-> IF Confirms(raw) THEN "y" ELSE "n",
     by |-> "main", end |-> "", rc |-> -1]

\* an input that main refused with message msg
Reject(msg) ==
    [ev |-> "reject", prog |-> "", arg |-> msg, by |-> "main", end |-> "", rc |-> -1]

\* where main goes when an operation ends with value val
After(val, next) == IF val = Raised THEN "crashed" ELSE next

-----------------------------------------------------------------------------
(* The program *)

Init ==
    /\ pc = "list_devices"
    /\ choice = <<>>
    /\ card_type = ""
    /\ serial = <<>>
    /\ file = FALSE
    /\ log = <<>>
    /\ last = NoCall
    /\ returned = NoReturn
    /\ ndef_written = FALSE

\* main, line 332: list_devices()
list_devices ==
    /\ pc = "list_devices"
    /\ \E o \in Outcomes({"ACR122U"}) :
        LET val == ListDevices(o)
        IN  /\ log' = Append(log, Spawn("nfc-list", "", "list_devices", o))
            /\ last' = [fn |-> "list_devices", o |-> o, ret |-> val]
            /\ returned' = [fn |-> "list_devices", val |-> val]
            /\ pc' = After(val, "menu")
    /\ UNCHANGED <<choice, card_type, serial, file, ndef_written>>

\* main, lines 335-345, 349, 353, 357, 403, 424-429: a new iteration prints the
\* options, reads the choice and branches on it
menu ==
    /\ pc = "menu"
    /\ \E raw \in ChoiceInputs :
        /\ choice' = Strip(raw)
        /\ pc' = Dispatch(Strip(raw))
    /\ card_type' = ""
    /\ serial' = <<>>
    /\ log' = <<>>
    /\ last' = NoCall
    /\ returned' = NoReturn
    /\ ndef_written' = FALSE
    /\ UNCHANGED file

\* main, line 347: read_nfc_tag()
read_nfc_tag ==
    /\ pc = "read_nfc_tag"
    /\ \E o \in Outcomes(PollChunks) :
        LET val == ReadNfcTag(o)
        IN  /\ log' = Append(log, Spawn("nfc-poll", "", "read_nfc_tag", o))
            /\ last' = [fn |-> "read_nfc_tag", o |-> o, ret |-> val]
            /\ returned' = [fn |-> "read_nfc_tag", val |-> val]
            /\ pc' = After(val, "menu")
    /\ UNCHANGED <<choice, card_type, serial, file, ndef_written>>

\* main, lines 351 and 358: identify_card_type(); option 4 keeps the value
identify_card_type ==
    /\ pc = "identify_card_type"
    /\ \E o \in Outcomes(PollChunks) :
        LET val == IdentifyCardType(o)
        IN  /\ log' = Append(log, Spawn("nfc-poll", "-v", "identify_card_type", o))
            /\ last' = [fn |-> "identify_card_type", o |-> o, ret |-> val]
            /\ returned' = [fn |-> "identify_card_type", val |-> val]
            /\ card_type' = IF choice = <<"4">> /\ val # Raised THEN val ELSE card_type
            /\ pc' = After(val, IF choice = <<"4">> THEN "card_type" ELSE "menu")
    /\ UNCHANGED <<choice, serial, file, ndef_written>>

\* main, lines 360-364, 392-401: option 4 branches on card_type and either
\* prompts for the serial number or says why it does not
dispatch_card_type ==
    /\ pc = "card_type"
    /\ pc' = DispatchCardType(card_type)
    /\ card_type' = ""
    /\ last' = NoCall
    /\ UNCHANGED <<choice, serial, file, log, returned, ndef_written>>

\* main, lines 361-378: the serial number is read and validated
enter_serial ==
    /\ pc = "enter_serial"
    /\ \E raw \in SerialInputs :
        LET s    == Strip(raw)
            msg  == ValidateSerial(s)
            next == AfterValidation(msg, "confirm_uid")
        IN  /\ pc' = next
            /\ serial' = IF next = "menu" THEN <<>> ELSE s
            /\ log' = IF msg = "" THEN log ELSE Append(log, Reject(msg))
    /\ UNCHANGED <<choice, card_type, file, last, returned, ndef_written>>

\* main, lines 380-390: the UID write is confirmed or cancelled
confirm_uid ==
    /\ pc = "confirm_uid"
    /\ \E raw \in AnswerInputs :
        /\ log' = Append(log, Answer(raw))
        /\ pc' = IF Confirms(raw) THEN "write_nfc_tag" ELSE "menu"
        /\ serial' = IF Confirms(raw) THEN serial ELSE <<>>
    /\ UNCHANGED <<choice, card_type, file, last, returned, ndef_written>>

\* main, line 388: write_nfc_tag(serial)
write_nfc_tag ==
    /\ pc = "write_nfc_tag"
    /\ \E o \in Outcomes(SetUidChunks) :
        LET val == WriteNfcTag(o)
        IN  /\ log' = Append(log, Spawn("nfc-mfsetuid", "serial", "write_nfc_tag", o))
            /\ last' = [fn |-> "write_nfc_tag", o |-> o, ret |-> val]
            /\ returned' = [fn |-> "write_nfc_tag", val |-> val]
            /\ pc' = After(val, "menu")
    /\ serial' = <<>>
    /\ UNCHANGED <<choice, card_type, file, ndef_written>>

\* main, line 355: diagnose_card(), up to its return or to its call of
\* diagnose_write_capability
diagnose_card ==
    /\ pc = "diagnose_card"
    /\ \E o \in Outcomes(DumpChunks), created \in BOOLEAN :
        LET val == DiagnoseDump(o)
        IN  /\ created => o.kind \in {"ok"} \cup RanFaults
            /\ file' = TempFileAfter(o, file, created)
            /\ log' = Append(log, Spawn("nfc-mfclassic", "r a u /tmp/nfc_test.mfd",
                                        "diagnose_card", o))
            /\ IF val = "call"
               THEN /\ pc' = "diagnose_write_capability"
                    /\ UNCHANGED <<last, returned>>
               ELSE /\ pc' = After(val, "menu")
                    /\ last' = [fn |-> "diagnose_card", o |-> o, ret |-> val]
                    /\ returned' = [fn |-> "diagnose_card", val |-> val]
    /\ UNCHANGED <<choice, card_type, serial, ndef_written>>

\* diagnose_card, line 125-126: diagnose_write_capability(), then return True
diagnose_write_capability ==
    /\ pc = "diagnose_write_capability"
    /\ \E o \in Outcomes(SetUidChunks) :
        LET inner == DiagnoseWriteCapability(o)
            val   == DiagnoseAfterProbe(inner, o)
        IN  /\ log' = Append(log, Spawn("nfc-mfsetuid", "00000000",
                                        "diagnose_write_capability", o))
            /\ last' = [fn |-> "diagnose_write_capability", o |-> o, ret |-> inner]
            /\ returned' = [fn |-> "diagnose_card", val |-> val]
            /\ pc' = After(val, "menu")
    /\ UNCHANGED <<choice, card_type, serial, file, ndef_written>>

\* main, lines 404-410: the text is read and validated
enter_text ==
    /\ pc = "enter_text"
    /\ \E raw \in TextInputs :
        LET s    == Strip(raw)
            msg  == ValidateText(s)
            next == AfterValidation(msg, "confirm_ndef")
        IN  /\ pc' = next
            /\ serial' = IF next = "menu" THEN <<>> ELSE s
            /\ log' = IF msg = "" THEN log ELSE Append(log, Reject(msg))
    /\ UNCHANGED <<choice, card_type, file, last, returned, ndef_written>>

\* main, lines 412-422: the NDEF write is confirmed or cancelled
confirm_ndef ==
    /\ pc = "confirm_ndef"
    /\ \E raw \in AnswerInputs :
        /\ log' = Append(log, Answer(raw))
        /\ pc' = IF Confirms(raw) THEN "write_ndef_text" ELSE "menu"
        /\ serial' = IF Confirms(raw) THEN serial ELSE <<>>
    /\ UNCHANGED <<choice, card_type, file, last, returned, ndef_written>>

\* main, line 420: write_ndef_text(serial)
write_ndef_text ==
    /\ pc = "write_ndef_text"
    /\ \E e \in ScriptEnvs, k \in {"ok"} \cup ToolFaults :
        LET o   == IF k = "ok" THEN NdefScript(e) ELSE Fault(k)
            val == WriteNdefText(o)
        IN  /\ log' = Append(log, Spawn("python", "-c script", "write_ndef_text", o))
            /\ last' = [fn |-> "write_ndef_text", o |-> o, ret |-> val]
            /\ returned' = [fn |-> "write_ndef_text", val |-> val]
            /\ ndef_written' = (k = "ok" /\ NdefWritten(e))
            /\ pc' = After(val, "menu")
    /\ serial' = <<>>
    /\ UNCHANGED <<choice, card_type, file>>

Next ==
    \/ list_devices
    \/ menu
    \/ read_nfc_tag
    \/ identify_card_type
    \/ dispatch_card_type
    \/ diagnose_card
    \/ diagnose_write_capability
    \/ enter_serial
    \/ confirm_uid
    \/ write_nfc_tag
    \/ enter_text
    \/ confirm_ndef
    \/ write_ndef_text

Spec == Init /\ [][Next]_vars

-----------------------------------------------------------------------------
(* Properties *)

\* the spawns of this iteration so far
Spawns == {i \in 1..Len(log) : log[i].ev = "spawn"}

\* a spawned command that started (the program was found and executed)
Started(e) == e.ev = "spawn" /\ e.end \in {"ok"} \cup RanFaults

\* a command that changes the tag: the UID-set command with any argument, or
\* the NDEF write sub-script
Mutating(e) == Started(e) /\ e.prog \in {"nfc-mfsetuid", "python"}

\* the sentinel probe of diagnose_write_capability
IsProbe(e) == e.ev = "spawn" /\ e.prog = "nfc-mfsetuid" /\ e.arg = "00000000"

\* C1: after diagnose_card returns, on every exit path, the temporary dump file
\* /tmp/nfc_test.mfd does not exist.
C1_TempFileGoneAfterDiagnosis ==
    returned.fn = "diagnose_card" => ~file

\* C2: in every menu iteration a tag-mutating command (nfc-mfsetuid with any
\* argument, or the NDEF sub-script) runs only after the user answered 'y' to a
\* confirmation prompt earlier in that iteration.
C2_MutationOnlyAfterConfirmation ==
    \A i \in 1..Len(log) :
        Mutating(log[i]) =>
            \E j \in 1..(i - 1) : log[j].ev = "confirm" /\ log[j].arg = "y"

\* C3 as stated: in the write-UID action (option 4) a serial that fails
\* validation is refused before any subprocess was spawned in that action.
C3_NoSpawnBeforeRejection ==
    \A i \in 1..Len(log) :
        (choice = <<"4">> /\ log[i].ev = "reject") =>
            \A j \in 1..(i - 1) : log[j].ev # "spawn"

\* C3 amended: in the write-UID action (option 4) a serial that fails
\* validation is refused before any UID-set command is spawned: the one command
\* run in that iteration is the identification poll, nfc-poll -v, which ran
\* before the serial was asked for, and the refusal ends the iteration.
C3_RejectionBeforeUidSet ==
    \A i \in 1..Len(log) :
        (choice = <<"4">> /\ log[i].ev = "reject") =>
            /\ i = Len(log)
            /\ Spawns = {1}
            /\ log[1].prog = "nfc-poll" /\ log[1].arg = "-v"
            /\ pc \in {"menu", "exited"}

\* C3 witness: option 4 refused a serial that is not hexadecimal
C3_Witness ==
    /\ choice = <<"4">>
    /\ Len(log) = 2
    /\ log[2].ev = "reject"
    /\ log[2].arg = "Invalid hex format"

\* the strings the spec calls a UID: 8 characters, each a hexadecimal digit
IsUid(s) == Len(s) = UidLen /\ \A i \in 1..Len(s) : s[i] \in HexDigits

\* C4: whenever the menu invokes write_nfc_tag(serial), serial is exactly 8
\* characters, each a hexadecimal digit.
C4_WrittenSerialIsUid ==
    pc = "write_nfc_tag" => IsUid(serial)

\* C5: the menu loop ends only when the user selects option 6; whatever the
\* choices and whatever every command comes to, no exception propagates out
\* of an operation: the operation returns a value and main goes on to the menu
\* (or, in option 4, to its next prompt).
C5_OnlyExitEndsTheLoop ==
    /\ pc # "crashed"
    /\ pc = "exited" => choice = <<"6">>
    /\ last.ret # Raised
    /\ returned.val # Raised
    /\ last.fn # "" =>
           pc = IF last.fn = "identify_card_type" /\ choice = <<"4">>
                THEN "card_type" ELSE "menu"

\* C5 witness: the NDEF sub-script timed out and the menu is presented again
C5_Witness ==
    /\ pc = "menu"
    /\ last.fn = "write_ndef_text"
    /\ last.o.kind = "TimeoutExpired"
    /\ returned.val = "False"

\* C6 as stated: when the UID-set command completes, write_nfc_tag returns
\* True if and only if the exit code is 0 or the captured stdout or stderr
\* contains "Setting UID", and False in every other case.
C6_SuccessByExitCodeOrAnyOutput ==
    (last.fn = "write_nfc_tag" /\ last.o.kind = "ok") =>
        /\ last.ret \in {"True", "False"}
        /\ last.ret = "True" <=>
              \/ last.o.rc = 0
              \/ Contains(last.o.stdout, SETTING_UID)
              \/ Contains(last.o.stderr, SETTING_UID)

\* C6 amended: when the UID-set command completes, write_nfc_tag returns True
\* if and only if the exit code is 0 or the captured stdout contains
\* "Setting UID", and False in every other case; stderr is not searched.
C6_SuccessByExitCodeOrStdout ==
    (last.fn = "write_nfc_tag" /\ last.o.kind = "ok") =>
        /\ last.ret \in {"True", "False"}
        /\ last.ret = "True" <=>
              \/ last.o.rc = 0
              \/ Contains(last.o.stdout, SETTING_UID)

\* C6 witness: a non-zero exit code with "Setting UID" on stdout is a success
C6_Witness ==
    /\ last.fn = "write_nfc_tag"
    /\ last.o.kind = "ok"
    /\ last.o.rc = 1
    /\ last.o.stdout = <<"error", "Setting UID">>
    /\ last.ret = "True"

\* the marker table of the Output Classifier, in its order
MarkerTable ==
    << [marker |-> <<"MIFARE", "Classic">>,   label |-> "mifare_classic"],
       [marker |-> <<"Mifare Ultralight">>,   label |-> "mifare_ultralight"],
       [marker |-> <<"NTAG">>,                label |-> "ntag"],
       [marker |-> <<"ISO/IEC 14443A">>,      label |-> "iso14443a"] >>

\* the rows of the marker table whose marker occurs in text
Hits(text) == {i \in 1..Len(MarkerTable) : Contains(text, MarkerTable[i].marker)}

\* C7: when the verbose poll completes, identify_card_type returns the label of
\* the first marker of the table that occurs in stdout+stderr; text with both
\* "MIFARE Classic" and "ISO/IEC 14443A" yields mifare_classic.
C7_FirstMarkerWins ==
    (last.fn = "identify_card_type" /\ last.o.kind = "ok") =>
        LET text == last.o.stdout \o last.o.stderr
        IN  /\ \A i \in Hits(text) :
                   (\A j \in Hits(text) : i <= j) => last.ret = MarkerTable[i].label
            /\ (Hits(text) # {}) =>
                   \E i \in Hits(text) : last.ret = MarkerTable[i].label

\* C7 witness: the generic marker comes first in the text and "MIFARE Classic"
\* runs from the end of stdout into stderr
C7_Witness ==
    /\ last.fn = "identify_card_type"
    /\ last.o.stdout = <<"ISO/IEC 14443A", "MIFARE">>
    /\ last.o.stderr = <<"Classic">>
    /\ last.ret = "mifare_classic"

\* C8: when the verbose poll completes, identify_card_type classifies empty
\* output as none (None, distinct from unknown) and non-empty output with none
\* of the four markers as unknown.
C8_EmptyIsNoneUnmatchedIsUnknown ==
    (last.fn = "identify_card_type" /\ last.o.kind = "ok") =>
        LET text == last.o.stdout \o last.o.stderr
        IN  /\ text = <<>> => last.ret = "None"
            /\ (text # <<>> /\ Hits(text) = {}) => last.ret = "unknown"

\* what the embedded script prints when one of its steps failed
ScriptFailures ==
    {<<"No tag detected">>, <<"Tag not writable or no NDEF support">>, <<"Error">>,
     <<"Error: name 'nfc' is not defined">>}

\* C9: write_ndef_text returns True only when the text record was written to a
\* tag, and returns False whenever a step of the script failed (no target, no
\* NDEF or read-only, an exception after the imports).
C9_TrueOnlyWhenWritten ==
    last.fn = "write_ndef_text" =>
        /\ last.ret = "True" => ndef_written
        /\ (last.o.kind = "ok" /\ last.o.stdout \in ScriptFailures) => last.ret = "False"

=============================================================================
